---- MODULE Spec2Model ----
(***************************************************************************)
(* Model of get_failure_analysis (src/backend/main.py, lines 364-606): the *)
(* aggregation of the rule engine's resultSet into the four-stage failure  *)
(* analysis.                                                               *)
(*                                                                         *)
(* Values.  Component / sensor ids are strings in the program; here they   *)
(* are the numbers 1..NumIds, numbered in the order Python compares the    *)
(* strings, so that sorted() is the ascending order of the numbers.  The   *)
(* other scalar fields (counts, in-degrees, centralities, team and leader  *)
(* names) are numbers too.  A row is a sequence of fields, item[k] of the  *)
(* program is row[k+1].  A Python dict is a sequence of [key, val] entries *)
(* in insertion order with unique keys; a Python list is a sequence; None  *)
(* is the record None.                                                     *)
(***************************************************************************)
EXTENDS Integers, Sequences, FiniteSets, TLC

VARIABLES
    pc,                   \* position of the handler
    result_set,           \* data["data"]["resultSet"]: relation name -> rows
                          \* (None until the answer is there)
    failed_sensors,       \* set of sensor ids
    failure_chains,       \* list of {parent, child}
    hotspot_data,         \* dict component -> hotspot object
    hotspot_data_bound,   \* whether the local name hotspot_data is bound
    hotspots,             \* list of hotspot objects (convergence points)
    degree_centrality_map,\* dict component -> centrality
    root_cause_default,   \* hotspot object or None
    root_cause_combined,  \* hotspot object + centrality + method, or None
    root_cause,           \* = root_cause_default
    alerts,               \* list of alert objects
    exc,                  \* the exception in flight, "" when none
    response,             \* what the request returned, None while running
    reference             \* a completed request kept for comparison

vars == << pc, result_set, failed_sensors, failure_chains, hotspot_data,
           hotspot_data_bound, hotspots, degree_centrality_map,
           root_cause_default, root_cause_combined, root_cause, alerts,
           exc, response, reference >>

locals == << failed_sensors, failure_chains, hotspot_data, hotspot_data_bound,
             hotspots, degree_centrality_map, root_cause_default,
             root_cause_combined, root_cause, alerts >>

----------------------------------------------------------------------------
(* Bounds of the exploration *)

NumIds == 2
MaxRows == 2
MaxCount == 2

Ids == 1 .. NumIds
Counts == 0 .. MaxCount

None == [none |-> TRUE]

----------------------------------------------------------------------------
(* Python containers *)

Range(s) == { s[i] : i \in 1 .. Len(s) }

SeqsUpTo(S, n) == UNION { [1 .. k -> S] : k \in 0 .. n }

Min(S) == CHOOSE x \in S : \A y \in S : x <= y

Max(S) == CHOOSE x \in S : \A y \in S : x >= y

\* key in d
DictHas(d, k) == \E i \in 1 .. Len(d) : d[i].key = k

\* d[k]
DictGet(d, k) == d[CHOOSE i \in 1 .. Len(d) : d[i].key = k].val

\* d[k] = v: an existing key keeps its place, a new key goes last
DictPut(d, k, v) ==
    IF DictHas(d, k)
    THEN [i \in 1 .. Len(d) |-> IF d[i].key = k THEN [key |-> k, val |-> v] ELSE d[i]]
    ELSE Append(d, [key |-> k, val |-> v])

\* list(d.values())
DictValues(d) == [i \in 1 .. Len(d) |-> d[i].val]

\* x in lst
InList(x, lst) == \E i \in 1 .. Len(lst) : lst[i] = x

\* some row of rows is too short for the indexes the loop reads: IndexError
IndexErrorIn(rows, arity) == \E i \in 1 .. Len(rows) : Len(rows[i]) < arity

\* "name" in result_set
Has(rs, name) == name \in DOMAIN rs

\* result_set.get(name, [])
Get(rs, name) == IF Has(rs, name) THEN rs[name] ELSE << >>

----------------------------------------------------------------------------
(* Stage 1: failed sensors (lines 457-462, 584) *)

\* the loop of lines 460-462 over the rows of failed_observable
RECURSIVE AddFailedSensors(_, _)
AddFailedSensors(acc, rows) ==
    IF rows = << >> THEN acc
    ELSE AddFailedSensors(acc \cup { Head(rows)[1] }, Tail(rows))

CollectFailedSensors(rs) ==
    IF Has(rs, "failed_observable")
    THEN AddFailedSensors({}, rs["failed_observable"])
    ELSE {}

Stage1Raises(rs) ==
    Has(rs, "failed_observable") /\ IndexErrorIn(rs["failed_observable"], 1)

\* list(s) of a set s: the elements in the order the set iterates them, which
\* for a set of strings is any order (it depends on the hash seed of the process)
ListsOf(S) == { q \in [1 .. Cardinality(S) -> S] : Range(q) = S }

RECURSIVE InsertAsc(_, _)
InsertAsc(sorted, x) ==
    IF sorted = << >> THEN << x >>
    ELSE IF Head(sorted) <= x
         THEN << Head(sorted) >> \o InsertAsc(Tail(sorted), x)
         ELSE << x >> \o sorted

\* mutant: the list is returned as the set iterated it
Unsorted(lst) == lst

\* sorted(lst), ascending (line 584)
RECURSIVE Sorted(_)
Sorted(lst) ==
    IF lst = << >> THEN << >>
    ELSE InsertAsc(Sorted(SubSeq(lst, 1, Len(lst) - 1)), lst[Len(lst)])

(* Stage 2: failure chains (lines 464-470) *)

ChainOf(item) == [parent |-> item[1], child |-> item[2]]

AssembleChains(rs) ==
    IF Has(rs, "failure_chain")
    THEN [i \in 1 .. Len(rs["failure_chain"]) |-> ChainOf(rs["failure_chain"][i])]
    ELSE << >>

Stage2Raises(rs) ==
    Has(rs, "failure_chain") /\ IndexErrorIn(rs["failure_chain"], 2)

----------------------------------------------------------------------------
(* Stage 3: hotspots (lines 472-516) *)

NewHotspot(component, sensor_count) ==
    [component |-> component, affectedSensors |-> << >>, impactScore |-> sensor_count]

\* the loop of lines 478-485 over the rows of hotspot
RECURSIVE BuildHotspotData(_, _)
BuildHotspotData(hd, rows) ==
    IF rows = << >> THEN hd
    ELSE BuildHotspotData(
             DictPut(hd, Head(rows)[1], NewHotspot(Head(rows)[1], Head(rows)[2])),
             Tail(rows))

\* mutant: line 496 left out, a source is appended each time it is seen
PropagateNoDedup(hd, fs, item) ==
    LET source == item[1]
        target == item[2]
    IN  IF source \in fs /\ DictHas(hd, target)
        THEN DictPut(hd, target,
                 [DictGet(hd, target) EXCEPT !.affectedSensors = Append(@, source)])
        ELSE hd

\* lines 491-497: one row of propagates_to
Propagate(hd, fs, item) ==
    LET source == item[1]
        target == item[2]
    IN  IF source \in fs /\ DictHas(hd, target)
        THEN IF ~ InList(source, DictGet(hd, target).affectedSensors)
             THEN DictPut(hd, target,
                      [DictGet(hd, target) EXCEPT
                          !.affectedSensors = Append(@, source)])
             ELSE hd
        ELSE hd

\* the loop of lines 490-497
RECURSIVE PopulateAffected(_, _, _)
PopulateAffected(hd, fs, rows) ==
    IF rows = << >> THEN hd
    ELSE PopulateAffected(Propagate(hd, fs, Head(rows)), fs, Tail(rows))

\* lines 477-497: hotspot_data once the block of "hotspot" has run
HotspotData(rs, fs) ==
    LET built == BuildHotspotData(<< >>, rs["hotspot"])
    IN  IF Has(rs, "propagates_to")
        THEN PopulateAffected(built, fs, rs["propagates_to"])
        ELSE built

\* lines 500-503: max(..., default=0)
MaxSensorCount(hd) ==
    IF hd = << >> THEN 0
    ELSE Max({ hd[i].val.impactScore : i \in 1 .. Len(hd) })

\* mutant: the filter of line 508 left out
AllHotspots(hd) == DictValues(hd)

\* lines 506-509
ConvergencePoints(hd) ==
    SelectSeq(DictValues(hd), LAMBDA h : h.impactScore = MaxSensorCount(hd))

\* sorted(lst, key=impactScore, reverse=True): a stable sort, equal keys keep
\* the order they had in lst
RECURSIVE InsertDesc(_, _)
InsertDesc(sorted, h) ==
    IF sorted = << >> THEN << h >>
    ELSE IF Head(sorted).impactScore >= h.impactScore
         THEN << Head(sorted) >> \o InsertDesc(Tail(sorted), h)
         ELSE << h >> \o sorted

\* mutant: sorted ascending and then reversed, which turns equal keys around
RECURSIVE InsertAscByImpact(_, _)
InsertAscByImpact(sorted, h) ==
    IF sorted = << >> THEN << h >>
    ELSE IF Head(sorted).impactScore <= h.impactScore
         THEN << Head(sorted) >> \o InsertAscByImpact(Tail(sorted), h)
         ELSE << h >> \o sorted

RECURSIVE SortAscByImpact(_)
SortAscByImpact(lst) ==
    IF lst = << >> THEN << >>
    ELSE InsertAscByImpact(SortAscByImpact(SubSeq(lst, 1, Len(lst) - 1)),
                           lst[Len(lst)])

SortAscThenReverse(lst) ==
    LET asc == SortAscByImpact(lst)
    IN  [i \in 1 .. Len(asc) |-> asc[Len(asc) + 1 - i]]

RECURSIVE SortByImpactDesc(_)
SortByImpactDesc(lst) ==
    IF lst = << >> THEN << >>
    ELSE InsertDesc(SortByImpactDesc(SubSeq(lst, 1, Len(lst) - 1)), lst[Len(lst)])

Stage3Raises(rs) ==
    /\ Has(rs, "hotspot")
    /\ \/ IndexErrorIn(rs["hotspot"], 2)
       \/ Has(rs, "propagates_to") /\ IndexErrorIn(rs["propagates_to"], 2)

----------------------------------------------------------------------------
(* Degree centrality (lines 518-524) *)

RECURSIVE BuildCentrality(_, _)
BuildCentrality(m, rows) ==
    IF rows = << >> THEN m
    ELSE BuildCentrality(DictPut(m, Head(rows)[1], Head(rows)[2]), Tail(rows))

CentralityMap(rs) ==
    IF Has(rs, "degree_centrality")
    THEN BuildCentrality(<< >>, rs["degree_centrality"])
    ELSE << >>

CentralityRaises(rs) ==
    Has(rs, "degree_centrality") /\ IndexErrorIn(rs["degree_centrality"], 2)

----------------------------------------------------------------------------
(* Root causes (lines 526-547) *)

\* line 528 / 535: the relation is there and has a row
HasRows(rs, name) == Has(rs, name) /\ rs[name] # << >>

\* line 529 reads [0][0]; line 530 reads the name hotspot_data
RootDefaultIndexError(rs) ==
    HasRows(rs, "rootcause_default") /\ Len(rs["rootcause_default"][1]) < 1

RootDefaultUnbound(rs, bound) ==
    HasRows(rs, "rootcause_default") /\ ~ RootDefaultIndexError(rs) /\ ~ bound

\* mutant: a component that is no hotspot gets a hotspot object made for it
RootCauseDefaultFabricates(rs, hd) ==
    IF HasRows(rs, "rootcause_default")
    THEN LET component == rs["rootcause_default"][1][1]
         IN  IF DictHas(hd, component) THEN DictGet(hd, component)
             ELSE NewHotspot(component, 0)
    ELSE None

\* mutant: the component is looked up among the convergence points only
RootCauseDefaultAmongConvergence(rs, hd) ==
    IF HasRows(rs, "rootcause_default")
    THEN LET component == rs["rootcause_default"][1][1]
         IN  IF \E i \in 1 .. Len(ConvergencePoints(hd)) :
                    ConvergencePoints(hd)[i].component = component
             THEN DictGet(hd, component)
             ELSE None
    ELSE None

\* lines 527-531, when nothing is raised
RootCauseDefault(rs, hd) ==
    IF HasRows(rs, "rootcause_default")
    THEN LET component == rs["rootcause_default"][1][1]
         IN  IF DictHas(hd, component) THEN DictGet(hd, component) ELSE None
    ELSE None

\* lines 537-539 read item[0], item[1], item[2]; line 541 reads hotspot_data
RootCombinedIndexError(rs) ==
    HasRows(rs, "rootcause_combined") /\ Len(rs["rootcause_combined"][1]) < 3

RootCombinedUnbound(rs, bound) ==
    HasRows(rs, "rootcause_combined") /\ ~ RootCombinedIndexError(rs) /\ ~ bound

\* lines 542-544: the copy with two more fields
Enrich(h, indegree) ==
    [component       |-> h.component,
     affectedSensors |-> h.affectedSensors,
     impactScore     |-> h.impactScore,
     centrality      |-> indegree,
     method          |-> "combined"]

\* mutant: centrality taken from item[1], the sensor count
RootCauseCombinedWrongField(rs, hd) ==
    IF HasRows(rs, "rootcause_combined")
    THEN LET item == rs["rootcause_combined"][1]
         IN  IF DictHas(hd, item[1])
             THEN Enrich(DictGet(hd, item[1]), item[2])
             ELSE None
    ELSE None

\* mutant: a component that is no hotspot gets a hotspot object made for it
RootCauseCombinedFabricates(rs, hd) ==
    IF HasRows(rs, "rootcause_combined")
    THEN LET item == rs["rootcause_combined"][1]
         IN  IF DictHas(hd, item[1])
             THEN Enrich(DictGet(hd, item[1]), item[3])
             ELSE Enrich(NewHotspot(item[1], item[2]), item[3])
    ELSE None

\* lines 534-544, when nothing is raised
RootCauseCombined(rs, hd) ==
    IF HasRows(rs, "rootcause_combined")
    THEN LET item == rs["rootcause_combined"][1]
             component == item[1]
             indegree == item[3]
         IN  IF DictHas(hd, component)
             THEN Enrich(DictGet(hd, component), indegree)
             ELSE None
    ELSE None

----------------------------------------------------------------------------
(* Stage 4: alerts (lines 549-562) *)

\* mutant: the two names read from each other's position
AlertOfNamesSwapped(item) ==
    [component    |-> item[1],
     team         |-> item[2],
     teamLeaderId |-> item[3],
     firstName    |-> item[5],
     lastName     |-> item[4],
     sensorCount  |-> IF Len(item) > 5 THEN item[6] ELSE 0]

AlertOf(item) ==
    [component    |-> item[1],
     team         |-> item[2],
     teamLeaderId |-> item[3],
     firstName    |-> item[4],
     lastName     |-> item[5],
     sensorCount  |-> IF Len(item) > 5 THEN item[6] ELSE 0]

ComposeAlerts(rs) ==
    IF Has(rs, "alert")
    THEN [i \in 1 .. Len(rs["alert"]) |-> AlertOf(rs["alert"][i])]
    ELSE << >>

AlertsRaise(rs) == Has(rs, "alert") /\ IndexErrorIn(rs["alert"], 5)

(* Debug printing (lines 564-580): reads comp[0] of every row of "component" *)

DebugRaises(rs) == Has(rs, "component") /\ IndexErrorIn(rs["component"], 1)

(* The returned object (lines 582-601) *)

Analysis(fs_list, chains, hs, rc, rcd, rcc, dcm, al) ==
    [stage1 |-> [failedSensors |-> Sorted(fs_list)],
     stage2 |-> [failureChains |-> chains],
     stage3 |-> [hotspots         |-> hs,
                 rootCause        |-> rc,
                 rootCauseMethods |-> [default |-> rcd, combined |-> rcc],
                 degreeCentrality |-> dcm],
     stage4 |-> [alerts |-> al]]

Ok(body) == [status |-> 200, body |-> body]

\* HTTPException(status_code=500, detail=...)
Http500(detail) == [status |-> 500, detail |-> detail]

----------------------------------------------------------------------------
(* The resultSets explored.  Base is a complete well-formed resultSet; each *)
(* family varies some relations over all their values within the bounds    *)
(* and keeps Base for the rest.                                            *)

Expected == { "failed_observable", "failure_chain", "propagates_to", "hotspot",
              "degree_centrality", "rootcause_default", "rootcause_combined",
              "alert" }

\* component, team, teamLeaderId, firstName, lastName, sensorCount
AlertRow(c, k) == << c, 10 + c, 20 + c, 30 + c, 40 + c, k >>

Base ==
    [failed_observable  |-> << << 1 >>, << 2 >> >>,
     failure_chain      |-> << << 1, 2 >> >>,
     propagates_to      |-> << << 1, 1 >>, << 2, 1 >> >>,
     hotspot            |-> << << 1, 2 >>, << 2, 1 >> >>,
     degree_centrality  |-> << << 1, 1 >> >>,
     rootcause_default  |-> << << 1 >> >>,
     rootcause_combined |-> << << 1, 2, 2 >> >>,
     alert              |-> << AlertRow(1, 2) >>]

\* rs without the relations outside keep
Restrict(rs, keep) == [n \in keep |-> rs[n]]

\* rs with relation name set to rows (name need not be in rs)
With(rs, name, rows) ==
    [n \in DOMAIN rs \cup { name } |-> IF n = name THEN rows ELSE rs[n]]

Prefixes(row) == { SubSeq(row, 1, k) : k \in 0 .. Len(row) }

IdRows == { << c >> : c \in Ids }
PairRows == { << a, b >> : a \in Ids, b \in Ids }
HotspotRows == { << c, n >> : c \in Ids, n \in Counts }
CombinedRows == { << c, 1, d >> : c \in Ids, d \in Counts }
AlertRows == { AlertRow(c, k) : c \in Ids, k \in Counts }
               \cup { SubSeq(AlertRow(c, 0), 1, 5) : c \in Ids }

\* the sequences over S of at most n rows with strictly increasing first fields
Ascending(S, n) ==
    { q \in SeqsUpTo(S, n) : \A i \in 1 .. Len(q) - 1 : q[i][1] < q[i + 1][1] }

\* every subset of the expected relations missing
PresenceInputs == { Restrict(Base, keep) : keep \in SUBSET Expected }

FailedInputs ==
    { With(Base, "failed_observable", q) : q \in SeqsUpTo(IdRows, MaxRows + 1) }

ChainInputs ==
    { With(Base, "failure_chain", q) : q \in SeqsUpTo(PairRows, MaxRows) }

HotspotInputs ==
    { With(Base, "hotspot", q) : q \in SeqsUpTo(HotspotRows, MaxRows) }

\* hotspot rows over one more component and one more row, with two counts
ConvergenceInputs ==
    { With(Base, "hotspot", q) :
        q \in SeqsUpTo({ << c, n >> : c \in 1 .. NumIds + 1, n \in { 1, MaxCount } },
                       MaxRows + 1) }

PropagationInputs ==
    { With(With(With(Base, "failed_observable", f), "hotspot", h), "propagates_to", q) :
        f \in Ascending(IdRows, NumIds),
        h \in Ascending({ << c, 1 >> : c \in Ids }, NumIds),
        q \in SeqsUpTo(PairRows, MaxRows) }

\* a relation that may be missing: << present, rows >>
Optional(S) == { << FALSE, << >> >> } \cup { << TRUE, q >> : q \in S }

WithOptional(rs, name, opt) ==
    IF opt[1] THEN With(rs, name, opt[2])
    ELSE Restrict(rs, DOMAIN rs \ { name })

RootInputs ==
    { WithOptional(WithOptional(With(Base, "hotspot", h), "rootcause_default", d),
                   "rootcause_combined", c) :
        h \in Ascending(HotspotRows, MaxRows),
        d \in Optional(SeqsUpTo(IdRows, 2)),
        c \in Optional(SeqsUpTo(CombinedRows, 1)) }

CentralityInputs ==
    { With(With(Base, "degree_centrality", q), "rootcause_combined", r) :
        q \in SeqsUpTo(HotspotRows, MaxRows), r \in SeqsUpTo(CombinedRows, 1) }

AlertInputs ==
    { With(Base, "alert", q) : q \in SeqsUpTo(AlertRows, MaxRows) }

\* rows cut short, in any relation and at any place
MalformedInputs ==
    UNION { { With(Base, name, q) :
                q \in SeqsUpTo(Prefixes(Base[name][1]), MaxRows) } :
            name \in Expected }

\* the relation "component", which only the debug printing reads
DebugInputs ==
    { With(Base, "component", q) : q \in SeqsUpTo({ << >>, << 1 >> }, 1) }

----------------------------------------------------------------------------
(* The handler *)

FreshFrame ==
    /\ failed_sensors = {}
    /\ failure_chains = << >>
    /\ hotspot_data = << >>
    /\ hotspot_data_bound = FALSE
    /\ hotspots = << >>
    /\ degree_centrality_map = << >>
    /\ root_cause_default = None
    /\ root_cause_combined = None
    /\ root_cause = None
    /\ alerts = << >>

Init ==
    /\ pc = "request"
    /\ result_set = None
    /\ FreshFrame
    /\ exc = ""
    /\ response = None
    /\ reference = None

\* lines 360-361, 391-392: raised before the try block
ConfigError ==
    /\ pc = "request"
    /\ pc' = "done"
    /\ response' = Http500("not configured")
    /\ UNCHANGED << result_set, locals, exc, reference >>

\* lines 438-448: the call fails or answers with an error status
UpstreamError ==
    /\ pc = "request"
    /\ pc' = "done"
    /\ response' = Http500("Prometheux API error")
    /\ UNCHANGED << result_set, locals, exc, reference >>

\* lines 452-453: no data.resultSet in the answer
BadEnvelope ==
    /\ pc = "request"
    /\ pc' = "except"
    /\ exc' = "HTTPException"
    /\ UNCHANGED << result_set, locals, response, reference >>

\* lines 449-455
Fetch(inputs) ==
    /\ pc = "request"
    /\ \E rs \in inputs : result_set' = rs
    /\ pc' = "stage1"
    /\ UNCHANGED << locals, exc, response, reference >>

Raise(e) ==
    /\ pc' = "except"
    /\ exc' = e

\* lines 457-462
Stage1 ==
    /\ pc = "stage1"
    /\ IF Stage1Raises(result_set)
       THEN Raise("IndexError") /\ UNCHANGED failed_sensors
       ELSE /\ failed_sensors' = CollectFailedSensors(result_set)
            /\ pc' = "stage2"
            /\ UNCHANGED exc
    /\ UNCHANGED << result_set, failure_chains, hotspot_data, hotspot_data_bound,
                    hotspots, degree_centrality_map, root_cause_default,
                    root_cause_combined, root_cause, alerts, response, reference >>

\* lines 464-470
Stage2 ==
    /\ pc = "stage2"
    /\ IF Stage2Raises(result_set)
       THEN Raise("IndexError") /\ UNCHANGED failure_chains
       ELSE /\ failure_chains' = AssembleChains(result_set)
            /\ pc' = "stage3"
            /\ UNCHANGED exc
    /\ UNCHANGED << result_set, failed_sensors, hotspot_data, hotspot_data_bound,
                    hotspots, degree_centrality_map, root_cause_default,
                    root_cause_combined, root_cause, alerts, response, reference >>

\* lines 472-516
Stage3 ==
    /\ pc = "stage3"
    /\ IF Stage3Raises(result_set)
       THEN /\ Raise("IndexError")
            /\ UNCHANGED << hotspot_data, hotspot_data_bound, hotspots >>
       ELSE /\ IF Has(result_set, "hotspot")
               THEN /\ hotspot_data' = HotspotData(result_set, failed_sensors)
                    /\ hotspot_data_bound' = TRUE
                    /\ hotspots' = SortByImpactDesc(
                                       ConvergencePoints(
                                           HotspotData(result_set, failed_sensors)))
               ELSE UNCHANGED << hotspot_data, hotspot_data_bound, hotspots >>
            /\ pc' = "centrality"
            /\ UNCHANGED exc
    /\ UNCHANGED << result_set, failed_sensors, failure_chains,
                    degree_centrality_map, root_cause_default,
                    root_cause_combined, root_cause, alerts, response, reference >>

\* lines 518-524
Centrality ==
    /\ pc = "centrality"
    /\ IF CentralityRaises(result_set)
       THEN Raise("IndexError") /\ UNCHANGED degree_centrality_map
       ELSE /\ degree_centrality_map' = CentralityMap(result_set)
            /\ pc' = "rootcause_default"
            /\ UNCHANGED exc
    /\ UNCHANGED << result_set, failed_sensors, failure_chains, hotspot_data,
                    hotspot_data_bound, hotspots, root_cause_default,
                    root_cause_combined, root_cause, alerts, response, reference >>

\* lines 526-531
RootDefault ==
    /\ pc = "rootcause_default"
    /\ IF RootDefaultIndexError(result_set)
       THEN Raise("IndexError") /\ UNCHANGED root_cause_default
       ELSE IF RootDefaultUnbound(result_set, hotspot_data_bound)
       THEN Raise("UnboundLocalError") /\ UNCHANGED root_cause_default
       ELSE /\ root_cause_default' = RootCauseDefault(result_set, hotspot_data)
            /\ pc' = "rootcause_combined"
            /\ UNCHANGED exc
    /\ UNCHANGED << result_set, failed_sensors, failure_chains, hotspot_data,
                    hotspot_data_bound, hotspots, degree_centrality_map,
                    root_cause_combined, root_cause, alerts, response, reference >>

\* mutant: line 542 without .copy(): root_cause_combined is the object of
\* hotspot_data itself, which the list hotspots holds too, so lines 543-544
\* write into both
RootCombinedNoCopy ==
    /\ pc = "rootcause_combined"
    /\ IF RootCombinedIndexError(result_set)
       THEN /\ Raise("IndexError")
            /\ UNCHANGED << root_cause_combined, root_cause, hotspot_data, hotspots >>
       ELSE IF RootCombinedUnbound(result_set, hotspot_data_bound)
       THEN /\ Raise("UnboundLocalError")
            /\ UNCHANGED << root_cause_combined, root_cause, hotspot_data, hotspots >>
       ELSE /\ root_cause_combined' = RootCauseCombined(result_set, hotspot_data)
            /\ IF RootCauseCombined(result_set, hotspot_data) # None
               THEN LET rcc == RootCauseCombined(result_set, hotspot_data)
                    IN  /\ hotspot_data' = DictPut(hotspot_data, rcc.component, rcc)
                        /\ hotspots' = [i \in 1 .. Len(hotspots) |->
                                           IF hotspots[i].component = rcc.component
                                           THEN rcc ELSE hotspots[i]]
               ELSE UNCHANGED << hotspot_data, hotspots >>
            /\ root_cause' = root_cause_default
            /\ pc' = "alerts"
            /\ UNCHANGED exc
    /\ UNCHANGED << result_set, failed_sensors, failure_chains,
                    hotspot_data_bound, degree_centrality_map,
                    root_cause_default, alerts, response, reference >>

\* lines 533-547
RootCombined ==
    /\ pc = "rootcause_combined"
    /\ IF RootCombinedIndexError(result_set)
       THEN Raise("IndexError") /\ UNCHANGED << root_cause_combined, root_cause >>
       ELSE IF RootCombinedUnbound(result_set, hotspot_data_bound)
       THEN Raise("UnboundLocalError") /\ UNCHANGED << root_cause_combined, root_cause >>
       ELSE /\ root_cause_combined' = RootCauseCombined(result_set, hotspot_data)
            /\ root_cause' = root_cause_default
            /\ pc' = "alerts"
            /\ UNCHANGED exc
    /\ UNCHANGED << result_set, failed_sensors, failure_chains, hotspot_data,
                    hotspot_data_bound, hotspots, degree_centrality_map,
                    root_cause_default, alerts, response, reference >>

\* lines 549-562
Alerts ==
    /\ pc = "alerts"
    /\ IF AlertsRaise(result_set)
       THEN Raise("IndexError") /\ UNCHANGED alerts
       ELSE /\ alerts' = ComposeAlerts(result_set)
            /\ pc' = "debug"
            /\ UNCHANGED exc
    /\ UNCHANGED << result_set, failed_sensors, failure_chains, hotspot_data,
                    hotspot_data_bound, hotspots, degree_centrality_map,
                    root_cause_default, root_cause_combined, root_cause,
                    response, reference >>

\* lines 564-601
DebugAndReturn ==
    /\ pc = "debug"
    /\ IF DebugRaises(result_set)
       THEN Raise("IndexError") /\ UNCHANGED response
       ELSE /\ \E fs_list \in ListsOf(failed_sensors) :
                    response' = Ok(Analysis(fs_list, failure_chains, hotspots,
                                            root_cause, root_cause_default,
                                            root_cause_combined,
                                            degree_centrality_map, alerts))
            /\ pc' = "done"
            /\ UNCHANGED exc
    /\ UNCHANGED << result_set, locals, reference >>

\* lines 605-606: except Exception
Except ==
    /\ pc = "except"
    /\ response' = Http500(exc)
    /\ pc' = "done"
    /\ UNCHANGED << result_set, locals, exc, reference >>

\* mutant: hotspot_data is a module-level name that outlives the call
NewFrameKeepsHotspotData ==
    /\ pc' = "request"
    /\ result_set' = None
    /\ failed_sensors' = {}
    /\ failure_chains' = << >>
    /\ UNCHANGED << hotspot_data, hotspot_data_bound >>
    /\ hotspots' = << >>
    /\ degree_centrality_map' = << >>
    /\ root_cause_default' = None
    /\ root_cause_combined' = None
    /\ root_cause' = None
    /\ alerts' = << >>
    /\ exc' = ""
    /\ response' = None

\* the next call of the handler: a new frame, nothing is kept
NewFrame ==
    /\ pc' = "request"
    /\ result_set' = None
    /\ failed_sensors' = {}
    /\ failure_chains' = << >>
    /\ hotspot_data' = << >>
    /\ hotspot_data_bound' = FALSE
    /\ hotspots' = << >>
    /\ degree_centrality_map' = << >>
    /\ root_cause_default' = None
    /\ root_cause_combined' = None
    /\ root_cause' = None
    /\ alerts' = << >>
    /\ exc' = ""
    /\ response' = None

NextRequest ==
    /\ pc = "done"
    /\ NewFrame
    /\ UNCHANGED reference

Steps ==
    \/ ConfigError
    \/ UpstreamError
    \/ BadEnvelope
    \/ Stage1
    \/ Stage2
    \/ Stage3
    \/ Centrality
    \/ RootDefault
    \/ RootCombined
    \/ Alerts
    \/ DebugAndReturn
    \/ Except

\* one disjunct for each family of resultSets
FetchAny ==
    \/ Fetch(PresenceInputs)
    \/ Fetch(FailedInputs)
    \/ Fetch(ChainInputs)
    \/ Fetch(HotspotInputs)
    \/ Fetch(ConvergenceInputs)
    \/ Fetch(PropagationInputs)
    \/ Fetch(RootInputs)
    \/ Fetch(CentralityInputs)
    \/ Fetch(AlertInputs)
    \/ Fetch(MalformedInputs)
    \/ Fetch(DebugInputs)

Next == FetchAny \/ Steps \/ NextRequest

Spec == Init /\ [][Next]_vars

----------------------------------------------------------------------------
(* Requests one after the other, with one earlier request and its answer   *)
(* kept in reference (a history variable, no state of the program) to      *)
(* compare later answers with.                                             *)

RunInputs ==
    { Restrict(Base, Expected \ gone) :
        gone \in SUBSET { "failed_observable", "hotspot", "rootcause_default" } }
      \cup { With(Base, "failed_observable", q) : q \in SeqsUpTo(IdRows, MaxRows) }
      \cup { With(Base, "hotspot", q) : q \in SeqsUpTo(HotspotRows, 1) }

\* the request just answered becomes the one to compare with
RememberRun ==
    /\ pc = "done"
    /\ result_set # None
    /\ NewFrame
    /\ reference' = [input |-> result_set, output |-> response, others |-> FALSE]

\* the request just answered is not kept; others records that a request for
\* another resultSet was answered since the reference
PassRun ==
    /\ pc = "done"
    /\ NewFrame
    /\ reference' = IF reference # None /\ result_set # reference.input
                     THEN [reference EXCEPT !.others = TRUE]
                     ELSE reference

NextRuns == Fetch(RunInputs) \/ Steps \/ RememberRun \/ PassRun

SpecRuns == Init /\ [][NextRuns]_vars

----------------------------------------------------------------------------
(* What the claims speak about *)

\* the handler has answered a request whose resultSet it received
Finished == pc = "done" /\ result_set # None

\* ... with the four-stage analysis
Returned == Finished /\ response.status = 200

\* minimum number of fields of a row of each expected relation
MinArity ==
    [failed_observable  |-> 1, failure_chain     |-> 2, propagates_to      |-> 2,
     hotspot            |-> 2, degree_centrality |-> 2, rootcause_default  |-> 1,
     rootcause_combined |-> 3, alert             |-> 5]

\* only expected relations, and every row has the fields of its relation
WellFormed(rs) ==
    /\ DOMAIN rs \subseteq Expected
    /\ \A name \in DOMAIN rs : ~ IndexErrorIn(rs[name], MinArity[name])

\* rs without the rows that are too short
Clean(rs) ==
    [name \in DOMAIN rs |->
        SelectSeq(rs[name], LAMBDA row : Len(row) >= MinArity[name])]

\* the analysis of a resultSet in which hotspot_data is taken as empty when
\* "hotspot" is missing
AnalysisOf(rs) ==
    LET fs  == CollectFailedSensors(rs)
        hd  == IF Has(rs, "hotspot") THEN HotspotData(rs, fs) ELSE << >>
        rcd == RootCauseDefault(rs, hd)
    IN  Analysis(CHOOSE lst \in ListsOf(fs) : TRUE,
                 AssembleChains(rs),
                 SortByImpactDesc(ConvergencePoints(hd)),
                 rcd, rcd, RootCauseCombined(rs, hd),
                 CentralityMap(rs), ComposeAlerts(rs))

Stage3Of(resp) == resp.body.stage3

\* C1: whatever subset of the expected relations is missing from a well-formed
\* resultSet, the request returns the four-stage analysis, and each stage
\* whose relation is missing is empty or null; a missing "hotspot" gives
\* hotspots = [] and null root causes even when the root-cause relations have
\* rows.
C1_MissingRelationsNotFatal ==
    (Finished /\ WellFormed(result_set)) =>
        /\ response.status = 200
        /\ ~ Has(result_set, "failed_observable") =>
               response.body.stage1.failedSensors = << >>
        /\ ~ Has(result_set, "failure_chain") =>
               response.body.stage2.failureChains = << >>
        /\ ~ Has(result_set, "hotspot") =>
               /\ Stage3Of(response).hotspots = << >>
               /\ Stage3Of(response).rootCause = None
               /\ Stage3Of(response).rootCauseMethods.default = None
               /\ Stage3Of(response).rootCauseMethods.combined = None
        /\ ~ Has(result_set, "degree_centrality") =>
               Stage3Of(response).degreeCentrality = << >>
        /\ ~ Has(result_set, "rootcause_default") =>
               Stage3Of(response).rootCauseMethods.default = None
        /\ ~ Has(result_set, "rootcause_combined") =>
               Stage3Of(response).rootCauseMethods.combined = None
        /\ ~ Has(result_set, "alert") => response.body.stage4.alerts = << >>

\* C2: a row with fewer fields than its relation needs is skipped: with all
\* eight relations there, the request returns the analysis of the rows that
\* are long enough.
C2_MalformedRowsSkipped ==
    (Finished /\ DOMAIN result_set = Expected) =>
        /\ response.status = 200
        /\ response.body = AnalysisOf(Clean(result_set))

FirstFields(rows) == { rows[i][1] : i \in 1 .. Len(rows) }

\* C3: stage1.failedSensors is in ascending order without duplicates, and its
\* elements are exactly the first fields of the rows of failed_observable
\* (none when the relation is missing or has no row).
C3_FailedSensorsSortedSet ==
    Returned =>
        LET fs == response.body.stage1.failedSensors
        IN  /\ \A i \in 1 .. Len(fs) : \A j \in 1 .. Len(fs) : i < j => fs[i] < fs[j]
            /\ Range(fs) = FirstFields(Get(result_set, "failed_observable"))

\* rows out of order and with a repeated sensor
C3_Witness ==
    /\ Returned
    /\ Has(result_set, "failed_observable")
    /\ LET rows == result_set["failed_observable"]
       IN  /\ Len(rows) >= 3
           /\ rows[1][1] > rows[2][1]
           /\ rows[3][1] = rows[1][1]
    /\ Len(response.body.stage1.failedSensors) = 2

\* the first row of propagates_to that is (s, c)
FirstSeen(prop, s, c) ==
    Min({ k \in 1 .. Len(prop) : prop[k][1] = s /\ prop[k][2] = c })

AffectedSensorsOk(h, rs) ==
    LET a    == h.affectedSensors
        prop == Get(rs, "propagates_to")
    IN  /\ \A i \in 1 .. Len(a) : \A j \in 1 .. Len(a) : i # j => a[i] # a[j]
        /\ \A i \in 1 .. Len(a) :
               /\ a[i] \in FirstFields(Get(rs, "failed_observable"))
               /\ \E k \in 1 .. Len(prop) :
                      prop[k][1] = a[i] /\ prop[k][2] = h.component
        /\ \A i \in 1 .. Len(a) : \A j \in 1 .. Len(a) :
               i < j => FirstSeen(prop, a[i], h.component)
                            < FirstSeen(prop, a[j], h.component)

\* C4: once the rows of propagates_to are processed, the affectedSensors of
\* every hotspot has no duplicate, holds only sensors that are first fields of
\* failed_observable rows, holds s for hotspot h only if a row (s, h) is in
\* propagates_to, and lists the sensors in the order the rows first name them.
C4_AffectedSensors ==
    /\ hotspot_data_bound =>
           \A i \in 1 .. Len(hotspot_data) :
               AffectedSensorsOk(hotspot_data[i].val, result_set)
    /\ Returned =>
           \A i \in 1 .. Len(Stage3Of(response).hotspots) :
               AffectedSensorsOk(Stage3Of(response).hotspots[i], result_set)

\* two sensors reach a hotspot, the larger id first
C4_Witness ==
    /\ Returned
    /\ \E i \in 1 .. Len(Stage3Of(response).hotspots) :
           LET a == Stage3Of(response).hotspots[i].affectedSensors
           IN  Len(a) = 2 /\ a[1] > a[2]

\* the impact scores of the hotspot map: for each component that of its last row
MapScores(rows) ==
    { rows[i][2] : i \in { k \in 1 .. Len(rows) :
                             \A j \in k + 1 .. Len(rows) : rows[j][1] # rows[k][1] } }

\* C5: stage3.hotspots is non-empty iff the hotspot relation has a row, and
\* each member has the maximum impactScore of the hotspot map, also when a
\* component comes in several rows with different counts.
C5_ConvergencePoints ==
    Returned =>
        LET hs   == Stage3Of(response).hotspots
            rows == Get(result_set, "hotspot")
        IN  /\ (hs # << >>) <=> (rows # << >>)
            /\ \A i \in 1 .. Len(hs) : hs[i].impactScore = Max(MapScores(rows))

\* one component in two rows, the larger count first, and another hotspot below
C5_Witness ==
    /\ Returned
    /\ Has(result_set, "hotspot")
    /\ LET rows == result_set["hotspot"]
       IN  /\ Len(rows) = 2
           /\ rows[1][1] = rows[2][1]
           /\ rows[1][2] > rows[2][2]
    /\ Len(Stage3Of(response).hotspots) = 1

NamesHotspot(rc, rs) ==
    rc # None => rc.component \in FirstFields(Get(rs, "hotspot"))

\* C6: a root cause that is not null (default, combined or rootCause) has a
\* component that is a key of the hotspot map; when rootcause_default names a
\* component that is in no hotspot row, rootCauseMethods.default is null.
C6_RootCauseIsHotspot ==
    Returned =>
        /\ NamesHotspot(Stage3Of(response).rootCause, result_set)
        /\ NamesHotspot(Stage3Of(response).rootCauseMethods.default, result_set)
        /\ NamesHotspot(Stage3Of(response).rootCauseMethods.combined, result_set)
        /\ ( /\ HasRows(result_set, "rootcause_default")
             /\ result_set["rootcause_default"][1][1]
                    \notin FirstFields(Get(result_set, "hotspot")) )
               => Stage3Of(response).rootCauseMethods.default = None

\* there are hotspots, and rootcause_default names another component
C6_Witness ==
    /\ Returned
    /\ HasRows(result_set, "hotspot")
    /\ HasRows(result_set, "rootcause_default")
    /\ result_set["rootcause_default"][1][1]
           \notin FirstFields(result_set["hotspot"])
    /\ Stage3Of(response).rootCauseMethods.default = None

\* C7: a combined root cause that is not null has centrality equal to the third
\* field of the first rootcause_combined row and method "combined", whatever
\* degree_centrality says of the component.
C7_CombinedCentrality ==
    (Returned /\ Stage3Of(response).rootCauseMethods.combined # None) =>
        /\ Stage3Of(response).rootCauseMethods.combined.centrality
               = result_set["rootcause_combined"][1][3]
        /\ Stage3Of(response).rootCauseMethods.combined.method = "combined"

\* degree_centrality gives the component another value than the in-degree
C7_Witness ==
    /\ Returned
    /\ Stage3Of(response).rootCauseMethods.combined # None
    /\ LET rcc == Stage3Of(response).rootCauseMethods.combined
           dcm == Stage3Of(response).degreeCentrality
       IN  /\ DictHas(dcm, rcc.component)
           /\ DictGet(dcm, rcc.component) # rcc.centrality
           /\ rcc.centrality # result_set["rootcause_combined"][1][2]

\* C8: with a hotspot relation that has no row, stage3.hotspots is [] and
\* rootCause and both rootCauseMethods are null, whatever rows
\* rootcause_default and rootcause_combined have.
C8_NoHotspotNoRootCause ==
    (Finished /\ Has(result_set, "hotspot") /\ result_set["hotspot"] = << >>) =>
        IF response.status = 200
        THEN /\ Stage3Of(response).hotspots = << >>
             /\ Stage3Of(response).rootCause = None
             /\ Stage3Of(response).rootCauseMethods.default = None
             /\ Stage3Of(response).rootCauseMethods.combined = None
        ELSE response.detail = "IndexError"

\* no hotspot row, and both root-cause relations have a row
C8_Witness ==
    /\ Returned
    /\ Has(result_set, "hotspot") /\ result_set["hotspot"] = << >>
    /\ HasRows(result_set, "rootcause_default")
    /\ HasRows(result_set, "rootcause_combined")

\* C9: stage4.alerts has one record for each alert row, in the order of the
\* rows, with the five named fields from fields 0..4 and sensorCount from
\* field 5, or 0 for a row of five fields.
C9_Alerts ==
    Returned =>
        LET al   == response.body.stage4.alerts
            rows == Get(result_set, "alert")
        IN  /\ Len(al) = Len(rows)
            /\ \A i \in 1 .. Len(rows) :
                   /\ al[i].component = rows[i][1]
                   /\ al[i].team = rows[i][2]
                   /\ al[i].teamLeaderId = rows[i][3]
                   /\ al[i].firstName = rows[i][4]
                   /\ al[i].lastName = rows[i][5]
                   /\ Len(rows[i]) >= 6 => al[i].sensorCount = rows[i][6]
                   /\ Len(rows[i]) = 5 => al[i].sensorCount = 0

\* a row of five fields after a row of six with a count
C9_Witness ==
    /\ Returned
    /\ Has(result_set, "alert")
    /\ LET rows == result_set["alert"]
       IN  /\ Len(rows) = 2
           /\ Len(rows[1]) = 6 /\ rows[1][6] > 0
           /\ Len(rows[2]) = 5
           /\ rows[1][1] # rows[2][1]
    /\ response.body.stage4.alerts[2].sensorCount = 0

\* C10: two runs on the same resultSet give the same answer, element order
\* included, whatever requests were answered in between: nothing is carried
\* from one run to the next.
C10_SameInputSameOutput ==
    (Finished /\ reference # None /\ reference.input = result_set) =>
        response = reference.output

\* the same resultSet again after a request for another one, with two failed
\* sensors and a hotspot with two affected sensors in the answer
C10_Witness ==
    /\ Returned
    /\ reference # None
    /\ reference.input = result_set
    /\ reference.others
    /\ Len(response.body.stage1.failedSensors) = 2
    /\ \E i \in 1 .. Len(Stage3Of(response).hotspots) :
           Len(Stage3Of(response).hotspots[i].affectedSensors) = 2

\* the count of component c in the hotspot map: that of its last row
LastScore(rows, c) ==
    rows[Max({ k \in 1 .. Len(rows) : rows[k][1] = c })][2]

\* the row that puts component c into the hotspot map: its first row
FirstRow(rows, c) == Min({ k \in 1 .. Len(rows) : rows[k][1] = c })

\* C11: stage3.hotspots holds exactly the entries of the hotspot map whose
\* impactScore is the maximum, each once, in the order in which the hotspot
\* rows put their components into the map; the descending sort does not
\* reorder entries of equal score.
C11_ConvergenceOrder ==
    Returned =>
        LET hs   == Stage3Of(response).hotspots
            rows == Get(result_set, "hotspot")
        IN  /\ { hs[i].component : i \in 1 .. Len(hs) }
                  = { c \in FirstFields(rows) :
                        LastScore(rows, c) = Max(MapScores(rows)) }
            /\ \A i \in 1 .. Len(hs) :
                   hs[i].impactScore = LastScore(rows, hs[i].component)
            /\ \A i \in 1 .. Len(hs) : \A j \in 1 .. Len(hs) :
                   i < j => FirstRow(rows, hs[i].component)
                                < FirstRow(rows, hs[j].component)

\* three components, the first two with the maximum and not in the order of
\* their ids, the third below: the first two are returned in row order
C11_Witness ==
    /\ Returned
    /\ Has(result_set, "hotspot")
    /\ LET rows == result_set["hotspot"]
           hs   == Stage3Of(response).hotspots
       IN  /\ Len(rows) = 3
           /\ rows[1][1] > rows[2][1]
           /\ rows[3][1] \notin { rows[1][1], rows[2][1] }
           /\ rows[1][2] = rows[2][2]
           /\ rows[3][2] < rows[1][2]
           /\ Len(hs) = 2
           /\ hs[1].component = rows[1][1]
           /\ hs[2].component = rows[2][1]

\* C12: the default root cause depends on the first row of rootcause_default
\* and on the keys of the whole hotspot map only: it is not null iff that
\* row's component is a key, also when the component is no convergence point,
\* and then it is that component's entry; further rows do not matter;
\* stage3.rootCause is the same value.
C12_DefaultRootCause ==
    Returned =>
        LET rcd  == Stage3Of(response).rootCauseMethods.default
            rows == Get(result_set, "hotspot")
        IN  /\ (rcd # None) <=>
                   /\ HasRows(result_set, "rootcause_default")
                   /\ result_set["rootcause_default"][1][1] \in FirstFields(rows)
            /\ rcd # None =>
                   /\ rcd.component = result_set["rootcause_default"][1][1]
                   /\ rcd.impactScore = LastScore(rows, rcd.component)
            /\ Stage3Of(response).rootCause = rcd

\* two rows naming different hotspots, the first of them below the maximum:
\* the root cause is the first row's component and is not among the hotspots
C12_Witness ==
    /\ Returned
    /\ Has(result_set, "rootcause_default")
    /\ Len(result_set["rootcause_default"]) = 2
    /\ result_set["rootcause_default"][1][1] # result_set["rootcause_default"][2][1]
    /\ result_set["rootcause_default"][2][1]
           \in FirstFields(Get(result_set, "hotspot"))
    /\ Stage3Of(response).rootCause # None
    /\ Stage3Of(response).rootCause.component = result_set["rootcause_default"][1][1]
    /\ \A i \in 1 .. Len(Stage3Of(response).hotspots) :
           Stage3Of(response).hotspots[i].component
               # Stage3Of(response).rootCause.component

HotspotFields == { "component", "affectedSensors", "impactScore" }

\* C13: when rootcause_default and rootcause_combined name the same hotspot,
\* the centrality and method put on the combined result reach neither the
\* default result nor the entries of the hotspot map and of stage3.hotspots
\* (none has a centrality or method field), and both results have the
\* component, impactScore and affectedSensors of the map's entry.
C13_CombinedIsACopy ==
    ( /\ Returned
      /\ HasRows(result_set, "rootcause_default")
      /\ HasRows(result_set, "rootcause_combined")
      /\ result_set["rootcause_default"][1][1]
             = result_set["rootcause_combined"][1][1]
      /\ result_set["rootcause_default"][1][1]
             \in FirstFields(Get(result_set, "hotspot")) ) =>
        LET c     == result_set["rootcause_default"][1][1]
            rows  == result_set["hotspot"]
            rcd   == Stage3Of(response).rootCauseMethods.default
            rcc   == Stage3Of(response).rootCauseMethods.combined
            hs    == Stage3Of(response).hotspots
            entry == DictGet(hotspot_data, c)
        IN  /\ rcd # None /\ rcc # None
            /\ DOMAIN rcd = HotspotFields
            /\ DOMAIN entry = HotspotFields
            /\ \A i \in 1 .. Len(hs) : DOMAIN hs[i] = HotspotFields
            /\ DOMAIN rcc = HotspotFields \cup { "centrality", "method" }
            /\ rcd = entry
            /\ rcd.component = c /\ rcc.component = c
            /\ rcd.impactScore = LastScore(rows, c)
            /\ rcc.impactScore = LastScore(rows, c)
            /\ rcc.affectedSensors = entry.affectedSensors
            /\ \A i \in 1 .. Len(hs) : hs[i].component = c => hs[i] = rcd

\* both relations name a convergence point that has affected sensors
C13_Witness ==
    /\ Returned
    /\ HasRows(result_set, "rootcause_default")
    /\ HasRows(result_set, "rootcause_combined")
    /\ result_set["rootcause_default"][1][1] = result_set["rootcause_combined"][1][1]
    /\ Stage3Of(response).rootCauseMethods.default # None
    /\ Stage3Of(response).rootCauseMethods.combined # None
    /\ Stage3Of(response).rootCauseMethods.default.affectedSensors # << >>
    /\ \E i \in 1 .. Len(Stage3Of(response).hotspots) :
           Stage3Of(response).hotspots[i].component
               = result_set["rootcause_combined"][1][1]

====
